---- MODULE Spec2Model ----
(***************************************************************************)
(* Model of src/bot.py: the weekly reminder scheduler (schedule_loop), its *)
(* send window (_run_send_window), the dedup map and its state file.       *)
(*                                                                         *)
(* Time is civil wall-clock time in whole seconds; day 0 is a Monday.      *)
(* All datetimes of the program carry the same tzinfo, so Python compares  *)
(* and subtracts them on their civil fields, which is what the integer     *)
(* arithmetic below does.  The zone is taken to have a fixed UTC offset.   *)
(***************************************************************************)
EXTENDS Integers, Sequences, FiniteSets, TLC

VARIABLES
    \* configuration, read once at import time (bot.py 18-66)
    CHANNEL_ID, CATCH_UP, CATCH_UP_MAX_HOURS, DRY_RUN,
    TARGET_WEEKDAY, TARGET_HOUR, TARGET_MINUTE,
    \* environment
    clock,            \* datetime.datetime.now(TZ)
    backs,            \* number of times the clock was set back so far
    file,             \* contents of state.json
    \* the process
    pc,               \* position of the scheduler task
    has_task,         \* hasattr(client, "_schedule_task")
    closed,           \* client.is_closed()
    state,            \* schedule_loop: the in-memory dedup map
    last_scheduled,   \* schedule_loop local
    next_scheduled,   \* schedule_loop local
    scheduled_at,     \* _run_send_window parameter
    via,              \* call site of the running send window
    idx,              \* _run_send_window: position in client.guilds
    \* history of one target, the watched one (any target of the run)
    watch,            \* position in client.guilds of the watched target
    loaded,           \* what _load_state returned for its key in this run
    lastOk,           \* the latest instant delivered to it successfully in this run
    lastFail,         \* the instant of the latest delivery to it in this run, if
                      \* that delivery failed
    resent,           \* instants delivered to it successfully in this run when an
                      \* equal or later instant had been delivered to it before
    lastCommitted,    \* the latest instant delivered to it and then saved, in any run
    wturn,            \* what the running pass did with it so far
    failedBefore,     \* a delivery to an earlier target failed in the running pass
    \* history of the process
    fatal,            \* a SystemExit was caught inside a send window in this run
    cancelled_in,     \* where the scheduler task was when it was cancelled
    saveres,          \* how the _save_state call after the latest delivery
                      \* invocation ended ("none": no call)
    started,          \* number of schedule_loop tasks created in this process
    inflight,         \* number of channel.send calls awaited and not yet ended
    pending,          \* an on_ready handler is suspended in fetch_channel
    nap               \* _sleep_until: seconds asked of the asyncio.sleep under way

cfgvars == <<CHANNEL_ID, CATCH_UP, CATCH_UP_MAX_HOURS, DRY_RUN,
             TARGET_WEEKDAY, TARGET_HOUR, TARGET_MINUTE, watch>>
env == <<backs>>
window == <<scheduled_at, via, idx, wturn, failedBefore>>
hist == <<loaded, lastOk, lastFail, resent, lastCommitted>>
aux == <<cancelled_in, saveres>>
ready == <<started, pending>>
vars == <<CHANNEL_ID, CATCH_UP, CATCH_UP_MAX_HOURS, DRY_RUN,
          TARGET_WEEKDAY, TARGET_HOUR, TARGET_MINUTE, watch,
          clock, backs, file, pc, has_task, closed, state, last_scheduled,
          next_scheduled, scheduled_at, via, idx, wturn, failedBefore,
          loaded, lastOk, lastFail, resent, lastCommitted, fatal,
          cancelled_in, saveres, started, inflight, pending, nap>>

----------------------------------------------------------------------------
(* Bounds of the model *)

\* number of wall-clock readings the model distinguishes (three a week)
NumReadings == 6
\* len(client.guilds)
NumGuilds == 2
\* number of backward steps of the clock (SpecBack)
MaxBackSteps == 1

----------------------------------------------------------------------------
(* Units and values *)

SecondsPerHour == 3600
DaysPerWeek == 7
\* the longest single sleep of _sleep_until, in seconds
MaxNap == 60
DAY == 24 * SecondsPerHour
WEEK == DaysPerWeek * DAY

\* Python's None for an Optional value; a present value v is <<v>>
None == <<>>
\* the empty dict
EmptyMap == [k \in {} |-> <<>>]

\* datetime.weekday(): Monday = 0
weekday(t) == (t \div DAY) % DaysPerWeek

\* datetime.isoformat() of an instant with microsecond = 0: the string
\* "YYYY-MM-DDTHH:MM:SS+00:00", kept as its fields <<date, HH, MM, SS>>
isoformat(t) ==
    <<t \div DAY, (t % DAY) \div SecondsPerHour, (t % SecondsPerHour) \div 60, t % 60>>

\* dict assignment d[k] = v
DictSet(d, k, v) == [x \in (DOMAIN d) \cup {k} |-> IF x = k THEN v ELSE d[x]]

----------------------------------------------------------------------------
(* Clock/TimeWindow calculator *)

\* (mutant) a candidate equal to now counts as not yet reached
scheduled_run_for_week_strict(now_local) ==
    LET days_back == (weekday(now_local) - TARGET_WEEKDAY) % DaysPerWeek
        shifted   == now_local - days_back * DAY
        candidate == (shifted \div DAY) * DAY
                        + TARGET_HOUR * SecondsPerHour + TARGET_MINUTE * 60
    IN  IF candidate >= now_local THEN candidate - DaysPerWeek * DAY ELSE candidate

scheduled_run_for_week(now_local) ==
    LET days_back == (weekday(now_local) - TARGET_WEEKDAY) % DaysPerWeek
        shifted   == now_local - days_back * DAY
        candidate == (shifted \div DAY) * DAY
                        + TARGET_HOUR * SecondsPerHour + TARGET_MINUTE * 60
    IN  IF candidate > now_local THEN candidate - DaysPerWeek * DAY ELSE candidate

\* (mutant) a run scheduled exactly at now counts as the next one
next_run_after_inclusive(now_local) ==
    LET last == scheduled_run_for_week(now_local)
    IN  IF last >= now_local THEN last ELSE last + DaysPerWeek * DAY

next_run_after(now_local) ==
    LET last == scheduled_run_for_week(now_local)
        nxt  == last + DaysPerWeek * DAY
    IN  IF nxt <= now_local THEN nxt + DaysPerWeek * DAY ELSE nxt

----------------------------------------------------------------------------
(* Durable dedup store *)

\* a state file: missing (or unreadable, or no JSON object), or a JSON object
FileOf(kind, data) == [kind |-> kind, data |-> data]

\* (mutant) the file is never read back
_load_state_fresh(f) == EmptyMap

_load_state(f) == IF f.kind = "dict" THEN f.data ELSE EmptyMap

\* (mutant) the map is written straight into STATE_PATH: a failure leaves a
\* truncated file behind
_save_state_inplace(st, f, outcome) ==
    IF outcome = "ok" THEN FileOf("dict", st) ELSE FileOf("partial", EmptyMap)

\* the committed file after _save_state(st): tmp.replace(STATE_PATH) is the
\* only statement that touches it; any exception before it is logged
_save_state(st, f, outcome) == IF outcome = "ok" THEN FileOf("dict", st) ELSE f

_make_target_key(channel_id, guild_id) ==
    IF channel_id # None THEN <<"channel", channel_id[1]>>
    ELSE IF guild_id # None THEN <<"guild", guild_id[1]>>
    ELSE <<"unknown">>

\* (mutant) the dedup test never matches
_already_sent_never(st, target_key, run_at) == FALSE

_already_sent_for_run(st, target_key, run_at) ==
    IF target_key \notin DOMAIN st THEN FALSE
    ELSE IF st[target_key] = <<>> THEN FALSE
    ELSE st[target_key] = isoformat(run_at)

----------------------------------------------------------------------------
(* Catch-up policy and delivery decisions *)

\* (mutant) the staleness bound is exclusive
CatchUpDue_Strict(now, last) ==
    /\ CATCH_UP
    /\ \/ CATCH_UP_MAX_HOURS = None
       \/ (now - last) < CATCH_UP_MAX_HOURS[1] * SecondsPerHour

\* schedule_loop: CATCH_UP and the staleness test on
\* hours_since_last = (now - last_scheduled).total_seconds() / 3600.0
CatchUpDue(now, last) ==
    /\ CATCH_UP
    /\ \/ CATCH_UP_MAX_HOURS = None
       \/ (now - last) <= CATCH_UP_MAX_HOURS[1] * SecondsPerHour

\* (mutant) _send_once sends in dry-run mode too
RealSend_Always == TRUE

\* _send_once: channel.send is awaited unless DRY_RUN returns first
RealSend == ~DRY_RUN

\* (mutant) the record is written in dry-run mode too
ShouldRecord_Always == TRUE

\* _run_send_window: "if not DRY_RUN:" guarding the record and the save
ShouldRecord == ~DRY_RUN

\* (mutant) the record is never written
StateAfterSend_Never(st, target_key, run_at, outcome) == st

\* (mutant) the record is written before the delivery is known to have
\* succeeded
StateAfterSend_Early(st, target_key, run_at, outcome) ==
    IF ~DRY_RUN THEN DictSet(st, target_key, isoformat(run_at)) ELSE st

\* the dedup map after "await _send_once(channel)" ended with `outcome`:
\* the assignment is reached only when the await returned normally
StateAfterSend(st, target_key, run_at, outcome) ==
    IF outcome = "ok" /\ ShouldRecord
    THEN DictSet(st, target_key, isoformat(run_at))
    ELSE st

\* how a _save_state call can end: normally with the file replaced, with an
\* exception while the temporary file is written (caught, logged), or with
\* an exception from tmp.replace (caught, logged)
SaveOutcomes == {"ok", "tmp", "replace"}

\* (mutant) a failed save takes the record out of the map again
StateAfterSave_Rollback(before, after, sv) == IF sv = "ok" THEN after ELSE before

\* the dedup map once _save_state(state) has returned: _save_state only
\* reads it, whatever happens
StateAfterSave(before, after, sv) == after

\* how the save after "await _send_once(channel)" ended, if there was one
SaveResult(outcome, sv) ==
    IF outcome = "ok" /\ ShouldRecord
    THEN IF sv = "ok" THEN "ok" ELSE "failed"
    ELSE "none"

\* (mutant) the save is left to the end of the pass
FileAfterSend_Deferred(st, f, outcome, saveOutcome) == f

\* the state file after "await _send_once(channel)" ended with `outcome`
FileAfterSend(st, f, outcome, saveOutcome) ==
    IF outcome = "ok" /\ ShouldRecord THEN _save_state(st, f, saveOutcome) ELSE f

\* client.guilds, by position; guild.id of the i-th guild is i
Guilds == 1 .. NumGuilds

\* where _run_send_window goes once the i-th guild is dealt with
AfterGuild(i) == IF i >= NumGuilds THEN "win_exit" ELSE "window"

\* (mutant) a failed delivery ends the window in dynamic mode too
AfterSendFailure_Abort(i) == "win_exit"

\* where _run_send_window goes when _send_once raised: in fixed mode the
\* outer "except Exception" ends the window, in dynamic mode the inner
\* handlers log and the for loop goes on
AfterSendFailure(i) == IF CHANNEL_ID # None THEN "win_exit" ELSE AfterGuild(i)

\* the key of the i-th target
KeyOf(i) ==
    IF CHANNEL_ID # None THEN _make_target_key(CHANNEL_ID, None)
    ELSE _make_target_key(None, <<i>>)

\* the target the window is dealing with, and the watched one
CurKey == KeyOf(idx)
WatchKey == KeyOf(watch)

\* the turn of the i-th target ends with `what`: the watched target's log
Logged(i, what) ==
    /\ wturn' = IF i = watch THEN what ELSE wturn
    /\ failedBefore' = (failedBefore \/ (what = "fail" /\ i < watch))

\* d restricted to key k
Only(d, k) == [x \in (DOMAIN d) \cap {k} |-> d[x]]

\* an Optional instant o is present and at or past t
Reached(o, t) == o # None /\ o[1] >= t

----------------------------------------------------------------------------
(* The wall-clock readings and the inputs the model distinguishes *)

\* the first scheduled instant the model's clock reaches
FirstRun ==
    WEEK + TARGET_WEEKDAY * DAY + TARGET_HOUR * SecondsPerHour + TARGET_MINUTE * 60

\* seconds from a scheduled instant: just before it, at it, two hours past
Offsets == <<0 - 30, 0, 2 * SecondsPerHour>>

\* the n-th reading: week by week, the three offsets around the week's instant
Reading(n) == FirstRun + (n \div 3) * WEEK + Offsets[(n % 3) + 1]

ClockPoints == {Reading(n) : n \in 0 .. (NumReadings - 1)}

\* schedules (weekday, hour, minute) the model is run with
Schedules == {<<0, 12, 30>>}

\* settings (CHANNEL_ID, CATCH_UP, CATCH_UP_MAX_HOURS, DRY_RUN) the model is
\* run with: a fixed channel under every catch-up policy, the guilds with
\* catch-up off and with unlimited catch-up
Settings ==
    { <<<<42>>, FALSE, None, FALSE>>, <<<<42>>, TRUE, None, FALSE>>,
      <<<<42>>, TRUE, <<2>>, FALSE>>, <<<<42>>, TRUE, <<2>>, TRUE>>,
      <<None, FALSE, None, FALSE>>, <<None, TRUE, None, FALSE>>,
      <<None, TRUE, None, TRUE>> }

\* state files a run can find at its first start: none, one that holds the
\* instant `at` for the key, and (fixed channel) one that holds an empty string
InitFiles(channel_id, key, at) ==
    { FileOf("missing", EmptyMap),
      FileOf("dict", DictSet(EmptyMap, key, isoformat(at))) }
    \cup IF channel_id # None
         THEN {FileOf("dict", DictSet(EmptyMap, key, <<>>))}
         ELSE {}

----------------------------------------------------------------------------
(* Initial state: the module has been imported, the client is not ready *)

Init ==
    /\ \E c \in Settings :
          /\ CHANNEL_ID = c[1]
          /\ CATCH_UP = c[2]
          /\ CATCH_UP_MAX_HOURS = c[3]
          /\ DRY_RUN = c[4]
    /\ \E s \in Schedules :
          TARGET_WEEKDAY = s[1] /\ TARGET_HOUR = s[2] /\ TARGET_MINUTE = s[3]
    /\ watch \in (IF CHANNEL_ID # None THEN {1} ELSE Guilds)
    /\ clock \in {Reading(n) : n \in 0 .. 2}
    /\ backs = 0
    /\ file \in InitFiles(CHANNEL_ID, KeyOf(1), FirstRun)
    /\ pc = "not_started"
    /\ has_task = FALSE
    /\ closed = FALSE
    /\ state = EmptyMap
    /\ last_scheduled = 0
    /\ next_scheduled = 0
    /\ scheduled_at = 0
    /\ via = "none"
    /\ idx = 1
    /\ wturn = "none"
    /\ failedBefore = FALSE
    /\ loaded = EmptyMap
    /\ lastOk = None
    /\ lastFail = None
    /\ resent = {}
    /\ lastCommitted = None
    /\ fatal = FALSE
    /\ cancelled_in = "none"
    /\ saveres = "none"
    /\ started = 0
    /\ inflight = 0
    /\ pending = FALSE
    /\ nap = 0

\* the locals of a send window that has returned
WindowGone ==
    /\ scheduled_at' = 0
    /\ via' = "none"
    /\ idx' = 1
    /\ wturn' = "none"
    /\ failedBefore' = FALSE

\* _run_send_window(state, at) is called from call site v
EnterWindow(at, v) ==
    /\ pc' = "window"
    /\ scheduled_at' = at
    /\ via' = v
    /\ idx' = 1
    /\ wturn' = "none"
    /\ failedBefore' = FALSE

----------------------------------------------------------------------------
(* Actions *)

\* (mutant) the scheduler is started at every ready event
TaskGuard_None(has) == TRUE

\* on_ready: if not hasattr(client, "_schedule_task")
TaskGuard(has) == ~has

\* on_ready once _resolve_fixed_channel has ended with res: a SystemExit
\* closes the client; otherwise the scheduler is started unless one exists
ReadyTail(res) ==
    /\ IF res = "fatal"
       THEN closed' = TRUE /\ UNCHANGED <<pc, has_task, started>>
       ELSE IF TaskGuard(has_task)
       THEN /\ has_task' = TRUE
            /\ started' = started + 1
            /\ pc' = "load"
            /\ closed' = closed
       ELSE UNCHANGED <<pc, has_task, started, closed>>

\* on_ready runs without suspending: no fixed channel, or get_channel finds
\* it in the cache
on_ready ==
    /\ ~closed
    /\ pc \notin {"exited", "cancelled"}
    /\ ReadyTail("ok")
    /\ UNCHANGED <<cfgvars, env, clock, file, state, last_scheduled, next_scheduled,
                   window, hist, fatal, aux, inflight, pending, nap>>

\* on_ready suspends in "await client.fetch_channel(CHANNEL_ID)"
OnReadyFetch ==
    /\ ~closed
    /\ pc \notin {"exited", "cancelled"}
    /\ CHANNEL_ID # None
    /\ ~pending
    /\ pending' = TRUE
    /\ UNCHANGED <<cfgvars, env, clock, file, pc, has_task, closed, state,
                   last_scheduled, next_scheduled, window, hist, fatal, aux,
                   started, inflight, nap>>

\* fetch_channel returns or raises, and the suspended on_ready goes on,
\* whatever other handlers did in between
OnReadyResume(res) ==
    /\ pending
    /\ pending' = FALSE
    /\ ReadyTail(res)
    /\ UNCHANGED <<cfgvars, env, clock, file, state, last_scheduled, next_scheduled,
                   window, hist, fatal, aux, inflight, nap>>

\* schedule_loop: state = _load_state()
Load ==
    /\ pc = "load"
    /\ state' = _load_state(file)
    /\ loaded' = Only(state', WatchKey)
    /\ pc' = "loop"
    /\ UNCHANGED <<cfgvars, env, clock, file, has_task, closed, last_scheduled,
                   next_scheduled, window, lastOk, lastFail, resent, lastCommitted,
                   fatal, aux, ready, inflight, nap>>

\* schedule_loop: the while test and the head of an iteration, up to the
\* first await
LoopTop ==
    /\ pc = "loop"
    /\ IF closed
       THEN /\ pc' = "exited"
            /\ UNCHANGED <<last_scheduled, next_scheduled, window>>
       ELSE LET now == clock
                last == scheduled_run_for_week(now)
            IN  /\ last_scheduled' = last
                /\ next_scheduled' = next_run_after(now)
                /\ IF CatchUpDue(now, last)
                   THEN EnterWindow(last, "catchup")
                   ELSE /\ pc' = "sleep_until"
                        /\ UNCHANGED window
    /\ UNCHANGED <<cfgvars, env, clock, file, has_task, closed, state, hist, fatal, aux, ready, inflight, nap>>

\* _run_send_window, fixed mode, up to "await _send_once(channel)":
\* _resolve_fixed_channel returns a channel ("ok"), raises SystemExit
\* ("fatal") or raises another exception ("error")
RunFixed(res) ==
    /\ pc = "window"
    /\ CHANNEL_ID # None
    /\ IF res = "fatal"
       THEN /\ closed' = TRUE
            /\ fatal' = TRUE
            /\ pc' = "win_exit"
            /\ UNCHANGED <<state, file, wturn, failedBefore, saveres, inflight>>
       ELSE IF res = "error"
       THEN /\ pc' = "win_exit"
            /\ UNCHANGED <<closed, fatal, state, file, wturn, failedBefore, saveres,
                           inflight>>
       ELSE IF _already_sent_for_run(state, CurKey, scheduled_at)
       THEN /\ pc' = "win_exit"
            /\ Logged(1, "skip")
            /\ UNCHANGED <<closed, fatal, state, file, saveres, inflight>>
       ELSE IF RealSend
       THEN /\ pc' = "sending"
            /\ Logged(1, "invoked")
            /\ saveres' = "none"
            /\ inflight' = inflight + 1
            /\ UNCHANGED <<closed, fatal, state, file>>
       ELSE /\ pc' = "win_exit"
            /\ Logged(1, "dry")
            /\ inflight' = inflight
            /\ \E sv \in SaveOutcomes :
                  /\ state' = StateAfterSave(state,
                                  StateAfterSend(state, CurKey, scheduled_at, "ok"), sv)
                  /\ file' = FileAfterSend(state', file, "ok", sv)
                  /\ saveres' = SaveResult("ok", sv)
            /\ UNCHANGED <<closed, fatal>>
    /\ UNCHANGED <<cfgvars, env, clock, has_task, last_scheduled, next_scheduled,
                   scheduled_at, via, idx, hist, cancelled_in, ready, nap>>

\* _run_send_window, dynamic mode: one turn of "for guild in client.guilds"
\* up to "await _send_once(channel)"; pick_channel finds a channel or not
RunGuild(hasChannel) ==
    /\ pc = "window"
    /\ CHANNEL_ID = None
    /\ LET step == /\ pc' = AfterGuild(idx)
                   /\ idx' = IF idx >= NumGuilds THEN idx ELSE idx + 1
       IN
       IF ~hasChannel
       THEN /\ step
            /\ Logged(idx, "nochannel")
            /\ UNCHANGED <<state, file, saveres, inflight>>
       ELSE IF _already_sent_for_run(state, CurKey, scheduled_at)
       THEN /\ step
            /\ Logged(idx, "skip")
            /\ UNCHANGED <<state, file, saveres, inflight>>
       ELSE IF RealSend
       THEN /\ pc' = "sending"
            /\ Logged(idx, "invoked")
            /\ saveres' = "none"
            /\ inflight' = inflight + 1
            /\ UNCHANGED <<state, file, idx>>
       ELSE /\ step
            /\ Logged(idx, "dry")
            /\ inflight' = inflight
            /\ \E sv \in SaveOutcomes :
                  /\ state' = StateAfterSave(state,
                                  StateAfterSend(state, CurKey, scheduled_at, "ok"), sv)
                  /\ file' = FileAfterSend(state', file, "ok", sv)
                  /\ saveres' = SaveResult("ok", sv)
    /\ UNCHANGED <<cfgvars, env, clock, has_task, closed, last_scheduled,
                   next_scheduled, scheduled_at, via, hist, fatal, cancelled_in, ready, nap>>

\* channel.send returns ("ok") or raises ("fail"); on success the record is
\* written and saved (the save ends as sv) before anything else runs
DeliverReturn(outcome, sv) ==
    /\ pc = "sending"
    /\ outcome = "fail" => sv = "ok"       \* no save: sv is not used
    /\ state' = StateAfterSave(state,
                    StateAfterSend(state, CurKey, scheduled_at, outcome), sv)
    /\ file' = FileAfterSend(state', file, outcome, sv)
    /\ saveres' = SaveResult(outcome, sv)
    /\ inflight' = inflight - 1
    /\ Logged(idx, outcome)
    /\ pc' = IF outcome = "fail" THEN AfterSendFailure(idx)
             ELSE IF CHANNEL_ID # None THEN "win_exit"
             ELSE AfterGuild(idx)
    /\ idx' = IF pc' = "win_exit" THEN idx ELSE idx + 1
    /\ IF outcome = "ok" /\ CurKey = WatchKey
       THEN /\ lastOk' = IF Reached(lastOk, scheduled_at) THEN lastOk
                         ELSE <<scheduled_at>>
            /\ resent' = IF Reached(lastOk, scheduled_at)
                         THEN resent \cup {scheduled_at} ELSE resent
            /\ lastCommitted' =
                  IF ShouldRecord /\ sv = "ok" /\ ~Reached(lastCommitted, scheduled_at)
                  THEN <<scheduled_at>> ELSE lastCommitted
       ELSE UNCHANGED <<lastOk, resent, lastCommitted>>
    /\ lastFail' = IF CurKey # WatchKey THEN lastFail
                   ELSE IF outcome = "fail" THEN <<scheduled_at>> ELSE None
    /\ UNCHANGED <<cfgvars, env, clock, has_task, closed, last_scheduled,
                   next_scheduled, scheduled_at, via, loaded, fatal, cancelled_in, ready, nap>>

\* _run_send_window returns to schedule_loop: after the catch-up pass now
\* and next_scheduled are read again and the wait starts; after the regular
\* pass asyncio.sleep(1) starts
WinExit ==
    /\ pc = "win_exit"
    /\ IF via = "catchup"
       THEN /\ next_scheduled' = next_run_after(clock)
            /\ pc' = "sleep_until"
       ELSE /\ pc' = "sleep1"
            /\ UNCHANGED next_scheduled
    /\ WindowGone
    /\ UNCHANGED <<cfgvars, env, clock, file, has_task, closed, state,
                   last_scheduled, hist, fatal, aux, ready, inflight, nap>>

\* (mutant) one sleep for all of the remaining time
NapLength_Whole(remaining) == remaining

\* _sleep_until: min(60.0, remaining)
NapLength(remaining) == IF remaining < MaxNap THEN remaining ELSE MaxNap

\* _sleep_until(next_scheduled): one turn of its loop; it returns when the
\* clock is at or past the target, and the regular send window starts
SleepCheck ==
    /\ pc = "sleep_until"
    /\ LET remaining == next_scheduled - clock IN
       IF remaining <= 0
       THEN /\ EnterWindow(next_scheduled, "regular")
            /\ nap' = 0
       ELSE /\ pc' = "sleeping"
            /\ nap' = NapLength(remaining)
            /\ UNCHANGED window
    /\ UNCHANGED <<cfgvars, env, clock, file, has_task, closed, state,
                   last_scheduled, next_scheduled, hist, fatal, aux, ready, inflight>>

\* asyncio.sleep(min(60.0, remaining)) inside _sleep_until returns
SleepWake ==
    /\ pc = "sleeping"
    /\ pc' = "sleep_until"
    /\ nap' = 0
    /\ UNCHANGED <<cfgvars, env, clock, file, has_task, closed, state,
                   last_scheduled, next_scheduled, window, hist, fatal, aux, ready,
                   inflight>>

\* asyncio.sleep(1) at the end of an iteration returns
Sleep1Wake ==
    /\ pc = "sleep1"
    /\ pc' = "loop"
    /\ UNCHANGED <<cfgvars, env, clock, file, has_task, closed, state,
                   last_scheduled, next_scheduled, window, hist, fatal, aux, ready, inflight, nap>>

\* the scheduler task is waiting in an await (in fixed mode the send window
\* starts with one, fetch_channel)
Suspended ==
    \/ pc \in {"sleeping", "sending", "sleep1"}
    \/ pc = "window" /\ CHANNEL_ID # None

\* (mutant) schedule_loop swallows CancelledError and goes on looping
AfterCancel_Swallowed == "loop"

\* schedule_loop: "except asyncio.CancelledError: ... raise" ends the task
AfterCancel == "cancelled"

\* the scheduler task is cancelled while suspended: CancelledError is no
\* Exception, so it passes every handler of _run_send_window and is
\* re-raised by schedule_loop
Cancel ==
    /\ Suspended
    /\ pc' = AfterCancel
    /\ cancelled_in' = pc
    /\ inflight' = IF pc = "sending" THEN inflight - 1 ELSE inflight
    /\ nap' = 0
    /\ WindowGone
    /\ UNCHANGED <<cfgvars, env, clock, file, has_task, closed, state,
                   last_scheduled, next_scheduled, hist, fatal, saveres, ready>>

\* wall-clock time passes while the task is suspended or not yet running
\* (non-decreasing clock, any forward jump)
Tick ==
    /\ Suspended \/ pc = "load"
    /\ \E t \in ClockPoints : t > clock /\ clock' = t
    /\ UNCHANGED <<cfgvars, env, file, pc, has_task, closed, state, last_scheduled,
                   next_scheduled, window, hist, fatal, aux, ready, inflight, nap>>

\* the process ends (crash, kill, shutdown) and is started again later:
\* only the state file and the configuration survive
Restart ==
    /\ pc # "not_started" \/ closed
    /\ \E t \in ClockPoints : t >= clock /\ clock' = t
    /\ pc' = "not_started"
    /\ has_task' = FALSE
    /\ closed' = FALSE
    /\ state' = EmptyMap
    /\ last_scheduled' = 0
    /\ next_scheduled' = 0
    /\ WindowGone
    /\ loaded' = EmptyMap
    /\ lastOk' = None
    /\ lastFail' = None
    /\ resent' = {}
    /\ fatal' = FALSE
    /\ cancelled_in' = "none"
    /\ saveres' = "none"
    /\ started' = 0
    /\ inflight' = 0
    /\ pending' = FALSE
    /\ nap' = 0
    /\ UNCHANGED <<cfgvars, env, file, lastCommitted>>

Next ==
    \/ on_ready
    \/ OnReadyFetch
    \/ \E res \in {"ok", "fatal"} : OnReadyResume(res)
    \/ Load
    \/ LoopTop
    \/ \E res \in {"ok", "fatal", "error"} : RunFixed(res)
    \/ \E hasChannel \in BOOLEAN : RunGuild(hasChannel)
    \/ \E outcome \in {"ok", "fail"}, sv \in SaveOutcomes : DeliverReturn(outcome, sv)
    \/ WinExit
    \/ SleepCheck
    \/ SleepWake
    \/ Sleep1Wake
    \/ Cancel
    \/ Tick
    \/ Restart

Spec == Init /\ [][Next]_vars

\* the wall clock is set back between two iterations, while the task is in
\* asyncio.sleep(1) (a correction of the host's clock)
TickBack ==
    /\ pc = "sleep1"
    /\ backs < MaxBackSteps
    /\ backs' = backs + 1
    /\ \E t \in ClockPoints : t < clock /\ clock' = t
    /\ UNCHANGED <<cfgvars, file, pc, has_task, closed, state, last_scheduled,
                   next_scheduled, window, hist, fatal, aux, ready, inflight, nap>>

NextBack == Next \/ TickBack

\* the program under a wall clock that may also step backwards
SpecBack == Init /\ [][NextBack]_vars

----------------------------------------------------------------------------
(* The Clock/TimeWindow calculator on its own: scheduled_run_for_week and   *)
(* next_run_after applied to a reading `now` under a schedule               *)

\* days of readings, from a Monday on
CalcDays == 7

\* hours, minutes and seconds of the readings and of the schedules
CalcHours == 0 .. 23
CalcMinutes == {0, 29, 30, 31, 59}
CalcSeconds == {0, 1, 59}
CalcSchedules ==
    {<<d, h, m>> : d \in 0 .. (DaysPerWeek - 1), h \in {0, 12, 23}, m \in {0, 30, 59}}
CalcNows ==
    {WEEK + d * DAY + h * SecondsPerHour + m * 60 + sec :
        d \in 0 .. (CalcDays - 1), h \in CalcHours, m \in CalcMinutes,
        sec \in CalcSeconds}

InitCalc ==
    /\ \E s \in CalcSchedules :
          TARGET_WEEKDAY = s[1] /\ TARGET_HOUR = s[2] /\ TARGET_MINUTE = s[3]
    /\ clock \in CalcNows
    /\ backs = 0
    /\ CHANNEL_ID = None
    /\ CATCH_UP = FALSE
    /\ CATCH_UP_MAX_HOURS = None
    /\ DRY_RUN = FALSE
    /\ watch = 1
    /\ file = FileOf("missing", EmptyMap)
    /\ pc = "calc"
    /\ has_task = FALSE
    /\ closed = FALSE
    /\ state = EmptyMap
    /\ last_scheduled = 0
    /\ next_scheduled = 0
    /\ scheduled_at = 0
    /\ via = "none"
    /\ idx = 1
    /\ wturn = "none"
    /\ failedBefore = FALSE
    /\ loaded = EmptyMap
    /\ lastOk = None
    /\ lastFail = None
    /\ resent = {}
    /\ lastCommitted = None
    /\ fatal = FALSE
    /\ cancelled_in = "none"
    /\ saveres = "none"
    /\ started = 0
    /\ inflight = 0
    /\ pending = FALSE
    /\ nap = 0

\* last_scheduled = scheduled_run_for_week(now)
CalcLast ==
    /\ pc = "calc"
    /\ last_scheduled' = scheduled_run_for_week(clock)
    /\ pc' = "calc_last"
    /\ UNCHANGED <<cfgvars, env, clock, file, has_task, closed, state, next_scheduled,
                   window, hist, fatal, aux, ready, inflight, nap>>

\* next_scheduled = next_run_after(now)
CalcNext ==
    /\ pc = "calc_last"
    /\ next_scheduled' = next_run_after(clock)
    /\ pc' = "calc_next"
    /\ UNCHANGED <<cfgvars, env, clock, file, has_task, closed, state, last_scheduled,
                   window, hist, fatal, aux, ready, inflight, nap>>

NextCalc == CalcLast \/ CalcNext

SpecCalc == InitCalc /\ [][NextCalc]_vars

----------------------------------------------------------------------------
(* Claims *)

\* the dedup map st holds the ISO string of instant t under key k
Holds(st, k, t) == k \in DOMAIN st /\ st[k] = isoformat(t)

\* a delivery (channel.send) is in flight
Sending == pc = "sending"

\* C1: a record in the in-memory map was either read from the state file at
\* startup or written after a delivery to that target for that instant
\* returned success in this run; failed, skipped and dry-run deliveries
\* write nothing.
C1_RecordOnlyAfterSuccess ==
    WatchKey \in DOMAIN state =>
        \/ WatchKey \in DOMAIN loaded /\ state[WatchKey] = loaded[WatchKey]
        \/ lastOk # None /\ state[WatchKey] = isoformat(lastOk[1])

\* a record of this run: not the one that was loaded
C1_Witness ==
    /\ lastOk # None
    /\ Holds(state, WatchKey, lastOk[1])
    /\ WatchKey \in DOMAIN loaded
    /\ loaded[WatchKey] # state[WatchKey]

\* C2: in a send window for instant S, a target whose record already holds
\* S gets no delivery, and dealing with it leaves the map and the state
\* file as they are; so a window that follows a fully successful one for
\* the same instant delivers nothing.
C2_Idempotent ==
    [][ /\ (pc' = "sending" /\ pc = "window")
            => ~Holds(state, CurKey, scheduled_at)
        /\ (pc = "window" /\ Holds(state, CurKey, scheduled_at)
                /\ pc' # "not_started")
            => (pc' # "sending" /\ state' = state /\ file' = file) ]_vars

\* the catch-up pass after a successful delivery for the same instant skips
C2_Witness ==
    /\ via = "catchup"
    /\ wturn = "skip"
    /\ lastOk = <<scheduled_at>>

\* C3: once a delivery to a target for instant S succeeded and the save that
\* follows completed, no delivery to that target for S (or an earlier
\* instant) is invoked again, in this run or after any restart, with
\* catch-up enabled or disabled.
C3_NoRepeatAfterRestart ==
    (Sending /\ CurKey = WatchKey) => ~Reached(lastCommitted, scheduled_at)

\* after a restart, the catch-up pass for the committed instant skips
C3_Witness ==
    /\ lastCommitted = <<scheduled_at>>
    /\ lastOk = None
    /\ wturn = "skip"
    /\ scheduled_run_for_week(clock) = scheduled_at

\* C4: within one run, with a non-decreasing clock, no target gets a second
\* successful delivery for an instant (every successful delivery to a
\* target is for a later instant than the ones before it), whatever the
\* saves do.
C4_NoDoubleSend == resent = {}

\* a second window for a delivered instant, its save having failed
C4_Witness ==
    /\ lastOk = <<scheduled_at>>
    /\ wturn = "skip"
    /\ ~Holds(_load_state(file), WatchKey, scheduled_at)

\* C5: in dynamic mode a pass in which a delivery failed still deals with
\* every later target: it ends with the later target delivered to (with
\* success or not), found without a postable channel, or skipped because
\* its record holds the instant.
C5_FailureIsolation ==
    (pc = "win_exit" /\ CHANNEL_ID = None /\ failedBefore) =>
        \/ wturn \in {"ok", "fail", "nochannel"}
        \/ wturn = "skip" /\ Holds(state, WatchKey, scheduled_at)

\* a pass ends with a delivery made after an earlier target's failure
C5_Witness ==
    /\ pc = "win_exit"
    /\ CHANNEL_ID = None
    /\ failedBefore
    /\ wturn = "ok"

\* C6: a failed delivery changes neither the map nor the state file, and
\* leaves the target without a record for the instant, so that no later
\* window for that instant skips the target.
C6_FailureLeavesState ==
    /\ [][ (wturn = "invoked" /\ wturn' = "fail")
             => /\ state' = state
                /\ file' = file
                /\ ~Holds(state', WatchKey, scheduled_at) ]_vars
    /\ [](wturn = "skip" => lastFail # <<scheduled_at>>)

\* a delivery is in flight again for the instant whose delivery failed
C6_Witness ==
    /\ Sending
    /\ CurKey = WatchKey
    /\ lastFail = <<scheduled_at>>

\* C7: with dry-run enabled channel.send is never invoked, the state file
\* is never written and the map stays as _load_state returned it.
C7_DryRunMutatesNothing ==
    [][ DRY_RUN =>
          /\ pc' # "sending"
          /\ file' = file
          /\ (pc # "load" /\ pc' # "not_started") => state' = state ]_vars

\* a dry-run pass of the regular window has dealt with the target
C7_Witness ==
    /\ DRY_RUN
    /\ via = "regular"
    /\ wturn = "dry"

\* C8: at the head of an iteration the send window for lastScheduled(now)
\* runs before the wait exactly when catch-up is enabled and no maximum is
\* set or now - lastScheduled(now) is within it (boundary included);
\* otherwise the wait for the next instant starts at once, and the regular
\* window of the iteration is never for lastScheduled(now).
C8_CatchUpDecision ==
    /\ [][ (pc = "loop" /\ pc' \in {"window", "sleep_until"}) =>
             LET last == scheduled_run_for_week(clock)
                 due  == /\ CATCH_UP
                         /\ \/ CATCH_UP_MAX_HOURS = None
                            \/ clock - last <= CATCH_UP_MAX_HOURS[1] * SecondsPerHour
             IN  /\ due => (pc' = "window" /\ via' = "catchup" /\ scheduled_at' = last)
                 /\ ~due => (pc' = "sleep_until"
                              /\ next_scheduled' = next_run_after(clock)) ]_vars
    /\ [](via = "regular" => scheduled_at # last_scheduled)

\* the catch-up window runs exactly at the staleness bound
C8_Witness ==
    /\ pc = "window"
    /\ via = "catchup"
    /\ CATCH_UP_MAX_HOURS = <<2>>
    /\ clock - scheduled_at = 2 * SecondsPerHour

\* C9: the instant the regular send window is started for equals
\* lastScheduled of the clock as read when the wait ends.
C9_FiresForInstantAtWake ==
    [][ (pc = "sleep_until" /\ pc' = "window")
          => scheduled_at' = scheduled_run_for_week(clock) ]_vars

\* C10: once a send window found the fixed target unresolvable, the
\* scheduler starts no further wait and no further send window, and no
\* delivery is invoked.
C10_FatalStopsScheduler ==
    fatal => pc \notin {"sleep_until", "sleeping", "window", "sending"}

\* C11: a cancellation that reaches the scheduler while it is suspended in
\* _sleep_until ends the task as cancelled (re-raised): the client is not
\* closed by it, and afterwards no delivery is invoked and neither the map
\* nor the state file is written in that process.
C11_CancelDuringWait ==
    /\ [][ (pc = "sleeping" /\ pc' \notin {"sleeping", "sleep_until", "not_started"})
             => /\ pc' = "cancelled"
                /\ closed' = closed
                /\ state' = state
                /\ file' = file ]_vars
    /\ [][ (pc = "cancelled" /\ pc' # "not_started")
             => /\ pc' = "cancelled"
                /\ state' = state
                /\ file' = file ]_vars

\* the task was cancelled in the middle of a wait whose target lay ahead
C11_Witness ==
    /\ pc = "cancelled"
    /\ cancelled_in = "sleeping"
    /\ clock < next_scheduled
    /\ ~closed

\* instant t falls on the schedule's weekday, hour and minute, seconds zero
Matches(t) ==
    /\ (t \div DAY) % DaysPerWeek = TARGET_WEEKDAY
    /\ t % DAY = TARGET_HOUR * SecondsPerHour + TARGET_MINUTE * 60

\* C12: scheduled_run_for_week(now) matches the schedule, is never after
\* now and is less than 7 days before it (so it is the greatest matching
\* instant <= now), and is now itself when now is a scheduled instant.
C12_LastScheduled ==
    pc \in {"calc_last", "calc_next"} =>
        /\ Matches(last_scheduled)
        /\ last_scheduled <= clock
        /\ clock - last_scheduled < DaysPerWeek * DAY
        /\ Matches(clock) => last_scheduled = clock

\* now is exactly a scheduled instant and the result is now
C12_Witness ==
    /\ pc = "calc_last"
    /\ Matches(clock)
    /\ last_scheduled = clock

\* C13: next_run_after(now) matches the schedule, is strictly after now
\* and at most 7 days after it (so it is the least matching instant > now),
\* and is exactly 7 days after scheduled_run_for_week(now).
C13_NextRun ==
    pc = "calc_next" =>
        /\ Matches(next_scheduled)
        /\ next_scheduled > clock
        /\ next_scheduled - clock <= DaysPerWeek * DAY
        /\ next_scheduled - last_scheduled = DaysPerWeek * DAY

\* now is exactly a scheduled instant and the result is a week later
C13_Witness ==
    /\ pc = "calc_next"
    /\ Matches(clock)
    /\ next_scheduled = clock + DaysPerWeek * DAY

\* C14: a _save_state call that fails before or at the rename leaves the
\* committed file exactly as it was, and every step leaves the committed
\* file either as it was or as the complete new map.
C14_CrashSafeSave ==
    /\ [][ (pc = "sending" /\ saveres' = "failed") => file' = file ]_vars
    /\ [][ file' = file \/ file' = FileOf("dict", state') ]_vars

\* a failed save has left the previously committed, non-empty map in place
C14_Witness ==
    /\ saveres = "failed"
    /\ file.kind = "dict"
    /\ file.data # EmptyMap
    /\ lastOk # None
    /\ ~Holds(file.data, WatchKey, lastOk[1])

\* C15: a failed save does not stop the scheduler and leaves the new record
\* in the in-memory map; whenever the latest save succeeded the file is the
\* full map, records whose own save had failed included.
C15_FailedSaveMadeUp ==
    /\ [][ (pc = "sending" /\ saveres' = "failed")
             => /\ pc' \in {"window", "win_exit"}
                /\ closed' = closed
                /\ Holds(state', CurKey, scheduled_at) ]_vars
    /\ [](saveres = "ok" => file = FileOf("dict", state))

\* the save after the watched target's delivery failed, and a later save
\* has put its record into the file
C15_Witness ==
    /\ saveres = "ok"
    /\ lastOk # None
    /\ ~Reached(lastCommitted, lastOk[1])
    /\ Holds(file.data, WatchKey, lastOk[1])

\* C17 as stated: with dry-run off, once a delivery has returned success its
\* record is in the state file, whatever happens next.
C17_AlwaysPersisted ==
    [][ (wturn = "invoked" /\ wturn' = "ok" /\ ~DRY_RUN)
          => Holds(file'.data, WatchKey, scheduled_at) ]_vars

\* C17 as amended: with dry-run off, in the very step in which a delivery
\* returns success (before any other delivery and before any suspension)
\* the record is written to the map and a save of the map is attempted;
\* when that save succeeds the file is the full map with the record in it.
C17_SavedAtOnce ==
    [][ (wturn = "invoked" /\ wturn' = "ok" /\ ~DRY_RUN)
          => /\ Holds(state', WatchKey, scheduled_at)
             /\ saveres' \in {"ok", "failed"}
             /\ saveres' = "ok" =>
                   /\ file' = FileOf("dict", state')
                   /\ Holds(file'.data, WatchKey, scheduled_at) ]_vars

\* the record is in the file while the pass still has targets to go
C17_Witness ==
    /\ pc = "window"
    /\ wturn = "ok"
    /\ saveres = "ok"
    /\ ~DRY_RUN
    /\ Holds(file.data, WatchKey, scheduled_at)

\* C16: however often and however overlapping the ready event is handled,
\* at most one schedule_loop task is created in a process and at most one
\* channel.send is in flight at any moment.
C16_OneOrchestration ==
    /\ started <= 1
    /\ inflight <= 1

\* a later on_ready handler is suspended in fetch_channel while the one
\* scheduler has a delivery in flight
C16_Witness ==
    /\ started = 1
    /\ pending
    /\ inflight = 1
    /\ pc = "sending"

\* C18: _sleep_until suspends for at most 60 seconds at a time; at each
\* re-check it returns, and the regular send window for its target starts,
\* exactly when the clock is at or past the target, and suspends again
\* otherwise; so a regular window never runs with the clock before its
\* instant, and after a jump past the target one wake-up ends the wait.
C18_BoundedWait ==
    /\ [](pc = "sleeping" => (nap > 0 /\ nap <= 60))
    /\ [][ (pc = "sleep_until" /\ pc' \notin {"sleep_until", "not_started"})
             => IF clock >= next_scheduled
                THEN pc' = "window" /\ via' = "regular"
                        /\ scheduled_at' = next_scheduled
                ELSE pc' = "sleeping" ]_vars
    /\ [](via = "regular" => clock >= scheduled_at)

\* the wait has ended at the first re-check after the clock jumped well
\* past the target
C18_Witness ==
    /\ pc = "window"
    /\ via = "regular"
    /\ idx = 1
    /\ wturn = "none"
    /\ clock > scheduled_at + 60

\* C19: an instant the scheduler was heading for and that the clock reached
\* while the catch-up pass for the previous instant was still running is
\* not passed over: the wait that follows the pass is for that instant, so
\* that its send window runs next.
C19_NoInstantSkipped ==
    [][ (pc = "win_exit" /\ via = "catchup" /\ pc' = "sleep_until"
            /\ ~closed /\ clock >= next_scheduled)
          => next_scheduled' = next_scheduled ]_vars

\* C20: also under backward steps of the clock, the instant stored for a
\* target in this run never moves to an earlier one, and no target gets a
\* second successful delivery for an instant it already got in this run.
C20_NoDoubleSendBackward ==
    /\ [][ (pc = "sending" /\ pc' # "not_started" /\ CurKey = WatchKey
              /\ lastOk # None
              /\ Holds(state, WatchKey, lastOk[1])
              /\ Holds(state', WatchKey, scheduled_at))
             => scheduled_at >= lastOk[1] ]_vars
    /\ [](\A s \in resent : lastOk # <<s>>)

====
